---- MODULE Spec2Model ----
(***************************************************************************)
(* A model of mplhep's plot.py: histplot, hist2dplot and the y-axis        *)
(* layout adjusters (yscale_legend, yscale_anchored_text).                 *)
(*                                                                         *)
(* One call runs at a time on a fresh axes.  A call of histplot or         *)
(* hist2dplot is one action, computed stage by stage as the function body  *)
(* does, an exception ending the call at the stage that raises it.  The    *)
(* yscale loops run one step per evaluation of the while condition and per *)
(* loop body, the overlap measurement being the plotting context's answer. *)
(*                                                                         *)
(* Python's None is the empty sequence <<>>, a present value x is <<x>>.   *)
(***************************************************************************)
EXTENDS Integers, Sequences, FiniteSets, TLC

VARIABLES pc, fn, args, out, ylim, max_scales, scale_factor, minOverlap

vars == <<pc, fn, args, out, ylim, max_scales, scale_factor, minOverlap>>

(***************************************************************************)
(* Bounds of the model.                                                    *)
(***************************************************************************)
MaxSeries == 2
MaxBins == 2
MaxOverlap == 2

None == <<>>
Some(x) == <<x>>
IsNone(o) == o = <<>>
Get(o) == o[1]

(***************************************************************************)
(* Sequence helpers.                                                       *)
(***************************************************************************)
RECURSIVE SumSeq(_)
SumSeq(s) == IF s = <<>> THEN 0 ELSE Head(s) + SumSeq(Tail(s))

RECURSIVE Prod(_)
Prod(s) == IF s = <<>> THEN 1 ELSE Head(s) * Prod(Tail(s))

Max2(a, b) == IF a >= b THEN a ELSE b

SeqsOf(S, n) == [1..n -> S]

(***************************************************************************)
(* Exact rationals <<numerator, denominator>>, denominator > 0, reduced:   *)
(* bin contents, scale factors and normalised values.                      *)
(***************************************************************************)
Abs(x) == IF x < 0 THEN -x ELSE x

RECURSIVE GCD(_, _)
GCD(a, b) == IF b = 0 THEN a ELSE GCD(b, a % b)

Rat(n, d) ==
    LET g == GCD(Abs(n), Abs(d))
        sgn == IF d < 0 THEN -1 ELSE 1
    IN  <<sgn * (n \div g), sgn * (d \div g)>>

R(n) == <<n, 1>>
RAdd(x, y) == Rat(x[1] * y[2] + y[1] * x[2], x[2] * y[2])
RMul(x, y) == Rat(x[1] * y[1], x[2] * y[2])
RDiv(x, y) == Rat(x[1] * y[2], x[2] * y[1])
RPos(x) == x[1] > 0
RSeq(s) == [i \in 1..Len(s) |-> R(s[i])]

RECURSIVE RSum(_)
RSum(s) == IF s = <<>> THEN R(0) ELSE RAdd(Head(s), RSum(Tail(s)))

Last(s) == s[Len(s)]

\* seq[ix] as Python indexes a list: ix counts from 0, a negative ix from the end
PyInRange(seq, ix) == -Len(seq) <= ix /\ ix < Len(seq)
PyAt(seq, ix) == IF ix < 0 THEN seq[Len(seq) + ix + 1] ELSE seq[ix + 1]

(***************************************************************************)
(* Arrays (numpy.ndarray): a shape and the elements in row-major order.    *)
(***************************************************************************)
Arr(shape, data) == [shape |-> shape, data |-> data]
Ndim(a) == Len(a.shape)
Size(a) == Len(a.data)

\* a.reshape(shape): numpy raises ValueError unless the sizes agree
CanReshape(a, shape) == Prod(shape) = Size(a)
Reshape(a, shape) == Arr(shape, a.data)

\* A tile that repeats every element in place instead of every row
Tile_Elementwise(a, reps) ==
    Arr([a.shape EXCEPT ![Len(a.shape)] = Last(a.shape) * reps],
        [j \in 1..(Size(a) * reps) |-> a.data[((j - 1) \div reps) + 1]])

\* np.tile(a, reps) for reps a number: every row (run along the last axis) is
\* repeated reps times, the last dimension growing by that factor
Tile(a, reps) ==
    LET k == Last(a.shape)
        newk == k * reps
    IN  Arr([a.shape EXCEPT ![Len(a.shape)] = newk],
            [j \in 1..(Size(a) * reps) |->
                LET row == (j - 1) \div newk
                    col == (j - 1) % newk
                IN  a.data[row * k + (col % k) + 1]])

\* np.ones((n, N)) * e
Full(n, N, e) == Arr(<<n, N>>, [j \in 1..(n * N) |-> e])

\* a[i] for a 2-D array, i from 1: its i-th row
Row(a, i) ==
    LET k == a.shape[2] IN [j \in 1..k |-> a.data[(i - 1) * k + j]]

\* a[i][j] for a 3-D array, i and j from 1
Row3(a, i, j) ==
    LET k == a.shape[3]
    IN  [c \in 1..k |-> a.data[((i - 1) * a.shape[2] + (j - 1)) * k + c]]

(***************************************************************************)
(* Histogram sources: the objects process_histogram_parts hands back, seen *)
(* through the accessors histplot uses.  proto is what the object exposes: *)
(* "traits" (its axis has traits.underflow / traits.overflow and values    *)
(* takes flow=), "flowarg" (values takes flow=, no traits: uproot) or      *)
(* "plain" (neither).  flowvals is h.values(flow=True).                    *)
(***************************************************************************)
\* The variance a source with variances reports for a content v.
VarOf(v) == 3 * v

MkHist(vals, hasVar, proto, tU, tO, u, o) ==
    LET lo == IF proto = "flowarg" \/ (proto = "traits" /\ tU) THEN <<u>> ELSE <<>>
        hi == IF proto = "flowarg" \/ (proto = "traits" /\ tO) THEN <<o>> ELSE <<>>
        fv == lo \o vals \o hi
    IN  [vals |-> vals,
         hasVar |-> hasVar,
         vars |-> [i \in 1..Len(vals) |-> VarOf(vals[i])],
         proto |-> proto,
         underflow_trait |-> tU,
         overflow_trait |-> tO,
         flowvals |-> fv,
         flowvars |-> [i \in 1..Len(fv) |-> VarOf(fv[i])]]

\* hasattr(h, "axes") and traits is not None and it has underflow and overflow
HasTraits(h) == h.proto = "traits"

\* "flow" in inspect.getfullargspec(h.values).args
TakesFlow(h) == h.proto \in {"traits", "flowarg"}

\* underflow, overflow, underflowv, overflowv as lines 193-223 leave them
Underflow(h) ==
    IF HasTraits(h)
    THEN IF h.underflow_trait THEN h.flowvals[1] ELSE 0
    ELSE IF TakesFlow(h) /\ Len(h.vals) + 2 = Len(h.flowvals)
         THEN h.flowvals[1] ELSE 0

Overflow(h) ==
    IF HasTraits(h)
    THEN IF h.overflow_trait THEN Last(h.flowvals) ELSE 0
    ELSE IF TakesFlow(h) /\ Len(h.vals) + 2 = Len(h.flowvals)
         THEN Last(h.flowvals) ELSE 0

Underflowv(h) ==
    IF ~h.hasVar THEN 0
    ELSE IF HasTraits(h)
         THEN IF h.underflow_trait THEN h.flowvars[1] ELSE 0
         ELSE IF TakesFlow(h) /\ Len(h.vals) + 2 = Len(h.flowvals)
              THEN h.flowvars[1] ELSE 0

Overflowv(h) ==
    IF ~h.hasVar THEN 0
    ELSE IF HasTraits(h)
         THEN IF h.overflow_trait THEN Last(h.flowvars) ELSE 0
         ELSE IF TakesFlow(h) /\ Len(h.vals) + 2 = Len(h.flowvals)
              THEN Last(h.flowvars) ELSE 0

(***************************************************************************)
(* Bin edges.  Edges are kept in units of 1/(20 N) of the caller's unit, N *)
(* the number of bins, so that 5% of the range and the mean bin width      *)
(* (the two candidates for the width of a flow bin) are whole numbers.     *)
(***************************************************************************)
FinalBins(bins) == [i \in 1..Len(bins) |-> bins[i] * 20 * (Len(bins) - 1)]

\* A flow bin of no width
FlowBinSize_Zero(fb) == 0

\* np.max([0.05 * (final_bins[-1] - final_bins[0]), np.mean(np.diff(final_bins))])
FlowBinSize(fb) ==
    LET range == Last(fb) - fb[1]
    IN  Max2(range \div 20, range \div (Len(fb) - 1))

(***************************************************************************)
(* Plottable: values, edges, variances (None or a sequence), the fixed     *)
(* errors attached by fixed_errors (None or <<lower, upper>>).             *)
(***************************************************************************)
Plottable(values, edges, variances) ==
    [values |-> values, edges |-> edges, variances |-> variances,
     yerr |-> None, method |-> "default", density |-> FALSE,
     binwnorm |-> FALSE, baseline |-> None]

\* flow == "show": a bin is prepended when underflow > 0 and appended when
\* overflow > 0 (np.r_); x and y are the contents put there
ShowSeq(s, u, o, x, y) ==
    (IF u > 0 THEN <<x>> ELSE <<>>) \o s \o (IF o > 0 THEN <<y>> ELSE <<>>)

\* A sum that puts the overflow into the first bin as well
SumSeqInto_First(s, u, o, x, y) ==
    LET a == IF u > 0 THEN [s EXCEPT ![1] = RAdd(@, x)] ELSE s
    IN  IF o > 0 THEN [a EXCEPT ![1] = RAdd(@, y)] ELSE a

\* flow == "sum": s[0] += x when underflow > 0, then s[-1] += y when overflow > 0
SumSeqInto(s, u, o, x, y) ==
    LET a == IF u > 0 THEN [s EXCEPT ![1] = RAdd(@, x)] ELSE s
    IN  IF o > 0 THEN [a EXCEPT ![Len(a)] = RAdd(@, y)] ELSE a

\* The body of the loop over hists (lines 190-257) for one source.
BuildPlottable(flow, h, fb) ==
    LET value == RSeq(h.vals)
        variance == RSeq(h.vars)
        u == Underflow(h)
        o == Overflow(h)
        uv == Underflowv(h)
        ov == Overflowv(h)
        size == FlowBinSize(fb)
        opt(v) == IF h.hasVar THEN Some(v) ELSE None
    IN  IF flow = "show"
        THEN Plottable(ShowSeq(value, u, o, R(u), R(o)),
                       ShowSeq(fb, u, o, fb[1] - size, Last(fb) + size),
                       opt(ShowSeq(variance, u, o, R(uv), R(ov))))
        ELSE IF flow = "sum"
        THEN Plottable(SumSeqInto(value, u, o, R(u), R(o)), fb,
                       opt(SumSeqInto(variance, u, o, R(uv), R(ov))))
        ELSE Plottable(value, fb, opt(variance))

(***************************************************************************)
(* histplot, stage by stage.  s is the state of the call: the exception    *)
(* raised so far (err, "none" while running; site names the raise), the    *)
(* locals the later stages read, and calls, the drawing calls made on the  *)
(* axes in order.                                                          *)
(***************************************************************************)
AllowedHisttype == {"fill", "step", "errorbar", "band"}
AllowedFlow == {"show", "sum", "hint", "none"}

Start ==
    [err |-> "none", site |-> "none", normalized |-> FALSE,
     final_bins |-> <<>>, plottables |-> <<>>, underflow |-> 0, overflow |-> 0,
     flow_bins |-> <<>>, sources |-> <<>>, labels |-> <<>>, chunked |-> <<>>, yerr |-> None,
     prestack |-> <<>>, stacked |-> FALSE, calls |-> <<>>, artists |-> <<>>]

Raise(s, err, site) == [s EXCEPT !.err = err, !.site = site]

\* lines 150-155: ax is None (plt.gca()), an Axes, or anything else
AxCheck(a, s) ==
    IF a.ax \notin {"None", "Axes"}
    THEN Raise(s, "ValueError", "ax")
    ELSE s

\* assert histtype in _allowed_histtype
HisttypeOk(histtype) == histtype \in AllowedHisttype

\* A check of flow that lets every selector through
FlowOk_Lax(flow) == TRUE

\* assert flow is None or flow in {"show", "sum", "hint", "none"}
FlowOk(flow) == IsNone(flow) \/ Get(flow) \in AllowedFlow

\* lines 157-166
ArgCheck(a, s) ==
    IF s.err # "none" THEN s
    ELSE IF ~HisttypeOk(a.histtype) THEN Raise(s, "AssertionError", "histtype")
    ELSE IF ~FlowOk(a.flow) THEN Raise(s, "AssertionError", "flow")
    ELSE s

\* lines 174-185: the sources are read and the edges taken from the first
ProcessInput(a, s) ==
    IF s.err # "none" THEN s
    ELSE [s EXCEPT !.normalized = TRUE, !.final_bins = FinalBins(a.bins)]

\* value = np.copy(h.values()) at line 190: the array the source keeps is not
\* the array `worked`, the one the flow content is added into
SourceAfter(h, worked) == h.vals

\* lines 187-257: one Plottable per source; underflow, overflow and flow_bins
\* are those of the last source when the loop ends
BuildPlottables(a, s) ==
    IF s.err # "none" THEN s
    ELSE LET n == Len(a.H)
             fl == IF IsNone(a.flow) THEN "None" ELSE Get(a.flow)
             ps == [i \in 1..n |-> BuildPlottable(fl, a.H[i], s.final_bins)]
         IN  [s EXCEPT !.plottables = ps,
                       !.sources = [i \in 1..n |->
                                      SourceAfter(a.H[i],
                                        IF fl = "sum"
                                        THEN [j \in 1..Len(a.H[i].vals) |->
                                                ps[i].values[j][1]]
                                        ELSE a.H[i].vals)],
                       !.underflow = Underflow(a.H[n]),
                       !.overflow = Overflow(a.H[n]),
                       !.flow_bins = IF fl = "show" THEN ps[n].edges
                                     ELSE s.final_bins]

\* lines 259-264: w2.reshape(len(plottables), len(final_bins) - 1), row i
\* becoming the variances of plottable i
AttachW2(a, s) ==
    IF s.err # "none" \/ IsNone(a.w2) THEN s
    ELSE LET n == Len(s.plottables)
             N == Len(s.final_bins) - 1
             w == Get(a.w2)
         IN  IF ~CanReshape(w, <<n, N>>)
             THEN Raise(s, "ValueError", "w2.reshape")
             ELSE [s EXCEPT !.plottables =
                     [i \in 1..n |->
                        [s.plottables[i] EXCEPT
                            !.variances = Some(RSeq(Row(Reshape(w, <<n, N>>), i))),
                            !.method = a.w2method]]]

\* if w2 is not None and yerr is not None
W2AndYerr(w2, yerr) == ~IsNone(w2) /\ yerr.kind # "None"

\* lines 266-267
W2YerrCheck(a, s) ==
    IF s.err # "none" THEN s
    ELSE IF W2AndYerr(a.w2, a.yerr)
    THEN Raise(s, "ValueError", "w2_and_yerr")
    ELSE s

\* lines 269-277: _labels
MakeLabels(a, s) ==
    IF s.err # "none" THEN s
    ELSE LET n == Len(s.plottables)
         IN  [s EXCEPT !.labels =
                CASE a.label.kind = "None" -> [i \in 1..n |-> None]
                  [] a.label.kind \in {"str", "scalar"} ->
                        [i \in 1..n |-> Some(a.label.val)]
                  [] OTHER -> [i \in 1..Len(a.label.items) |->
                                    Some(a.label.items[i])]]

\* A keyword value: a scalar (type "str", "int", "float" or "object", v naming
\* the value) or a sequence (type "tuple" or "list") of scalars
KScalar(type, v) == [type |-> type, v |-> v, items |-> <<>>]
KSeq(type, items) == [type |-> type, v |-> 0, items |-> items]

\* lines 279-280: iterable_not_string
IterableNotString(val) == val.type \in {"tuple", "list"}

\* A tuple test that no tuple passes
NumTuple_Never(val) == FALSE

\* lines 289-291: a tuple whose elements are all ints or floats
NumTuple(val) ==
    /\ val.type = "tuple"
    /\ \A k \in 1..Len(val.items) : val.items[k].type \in {"int", "float"}

\* lines 285-299: one dict per series, chunked[i] being the set of the
\* <<keyword, value>> pairs of series i; _chunked_kwargs[i] raises IndexError
\* for an iterable longer than the series are many
RECURSIVE FanOut(_, _, _)
FanOut(kws, chunked, n) ==
    IF kws = <<>> THEN [err |-> "none", chunked |-> chunked]
    ELSE LET kw == Head(kws)
         IN  IF IterableNotString(kw.val) /\ ~NumTuple(kw.val)
             THEN IF Len(kw.val.items) > n
                  THEN [err |-> "IndexError", chunked |-> chunked]
                  ELSE FanOut(Tail(kws),
                              [i \in 1..n |->
                                 IF i <= Len(kw.val.items)
                                 THEN chunked[i] \cup {<<kw.key, kw.val.items[i]>>}
                                 ELSE chunked[i]], n)
             ELSE FanOut(Tail(kws),
                         [i \in 1..n |-> chunked[i] \cup {<<kw.key, kw.val>>}], n)

ChunkKwargs(a, s) ==
    IF s.err # "none" THEN s
    ELSE LET n == Len(s.plottables)
             r == FanOut(a.kwargs, [i \in 1..n |-> {}], n)
         IN  IF r.err # "none"
             THEN Raise(s, r.err, "kwargs")
             ELSE [s EXCEPT !.chunked = r.chunked]

\* lines 303-315: _yerr.  yerr is None, a bool, a number, or something with
\* __len__ (np.asarray(yerr), given here as the array it converts to)
YerrArray(yerr, n, N) ==
    IF yerr.kind = "array" THEN Some(yerr.arr)
    ELSE IF yerr.kind = "number" THEN Some(Full(n, N, yerr.val))
    ELSE None

\* lines 319-339: _yerr brought to three dimensions, or the exception raised
\* (numpy's reshape raises ValueError as well)
BroadcastYerr(y, n) ==
    LET K == Last(y.shape)
        ok(arr) == [err |-> "none", arr |-> arr]
        bad == [err |-> "ValueError", arr |-> y]
    IN  IF Ndim(y) = 3 THEN ok(y)
        ELSE IF Ndim(y) = 2 /\ n = 1
        THEN IF y.shape[1] = 2 THEN ok(Reshape(y, <<n, 2, K>>))
             ELSE IF y.shape[1] = 1 THEN ok(Reshape(Tile(y, 2), <<n, 2, K>>))
             ELSE bad
        ELSE IF Ndim(y) = 2
        THEN IF CanReshape(Tile(y, 2), <<n, 2, K>>)
             THEN ok(Reshape(Tile(y, 2), <<n, 2, K>>))
             ELSE bad
        ELSE IF Ndim(y) = 1 THEN ok(Reshape(Tile(y, 2 * n), <<n, 2, K>>))
        ELSE bad

\* Plottable.fixed_errors(*yrs) takes the lower and the upper errors
FixedErrorsTakes(k) == k = 2

\* lines 341-343: zip(_yerr, plottables) pairs the first min(len(_yerr), n)
Zipped(y3, n) == IF y3.shape[1] < n THEN y3.shape[1] ELSE n

\* lines 301-343
AttachYerr(a, s) ==
    IF s.err # "none" THEN s
    ELSE LET n == Len(s.plottables)
             N == Len(s.final_bins) - 1
             y == YerrArray(a.yerr, n, N)
         IN  IF IsNone(y) THEN s
             ELSE LET b == BroadcastYerr(Get(y), n)
                      m == Zipped(b.arr, n)
                  IN  IF b.err # "none" THEN Raise(s, b.err, "yerr")
                      ELSE IF m > 0 /\ ~FixedErrorsTakes(b.arr.shape[2])
                      THEN Raise(s, "TypeError", "fixed_errors")
                      ELSE [s EXCEPT
                              !.yerr = Some(b.arr),
                              !.plottables =
                                [i \in 1..n |->
                                   IF i <= m
                                   THEN [s.plottables[i] EXCEPT !.yerr =
                                           Some(<<RSeq(Row3(b.arr, i, 1)),
                                                  RSeq(Row3(b.arr, i, 2))>>)]
                                   ELSE s.plottables[i]]]

RLess(x, y) == x[1] * y[2] < y[1] * x[2]

\* np.argsort(keys), indices from 0: ascending, equal keys in input order (the
\* insertion sort numpy runs on so short an array)
ArgSort(keys) ==
    LET n == Len(keys)
        rank(i) == Cardinality({j \in 1..n :
                        RLess(keys[j], keys[i]) \/ (keys[j] = keys[i] /\ j < i)})
    IN  [k \in 1..n |-> (CHOOSE i \in 1..n : rank(i) = k - 1) - 1]

\* An order left as it is
Reversed_Kept(seq) == seq

\* order[::-1]
Reversed(seq) == [k \in 1..Len(seq) |-> seq[Len(seq) + 1 - k]]

\* np.argsort(label) on the label argument as given: an array of one element
\* when label is None, a string or a number, the labels' order when it is a list
\* (a label is named by its rank in alphabetical order)
LabelOrder(label) ==
    IF label.kind = "list" THEN ArgSort(RSeq(label.items)) ELSE <<0>>

\* _yields = [np.sum(_h.values) ...]; order = np.argsort(_yields)
YieldOrder(ps) == ArgSort([i \in 1..Len(ps) |-> RSum(ps[i].values)])

\* lines 346-362: order, or the exception.  A string sort is given split at "_".
SortOrder(a, s) ==
    LET n == Len(s.plottables)
        ok(o) == [err |-> "none", order |-> o]
        bad(e) == [err |-> e, order |-> <<>>]
    IN  CASE a.sort.kind = "str" ->
               LET base == a.sort.parts[1]
                   rev == Len(a.sort.parts) = 2 /\ a.sort.parts[2] = "r"
                   known == base \in {"l", "label", "y", "yield"}
                   o == IF base \in {"l", "label"} THEN LabelOrder(a.label)
                        ELSE YieldOrder(s.plottables)
               IN  IF ~known THEN bad("UnboundLocalError")
                   ELSE ok(IF rev THEN Reversed(o) ELSE o)
          [] a.sort.kind = "list" ->
               IF Len(a.sort.idx) # n THEN bad("ValueError") ELSE ok(a.sort.idx)
          [] OTHER -> bad("ValueError")

\* lines 345-365
SortSeries(a, s) ==
    IF s.err # "none" \/ a.sort.kind = "None" THEN s
    ELSE LET so == SortOrder(a, s)
             o == so.order
             fits(seq) == \A k \in 1..Len(o) : PyInRange(seq, o[k])
             pick(seq) == [k \in 1..Len(o) |-> PyAt(seq, o[k])]
         IN  IF so.err # "none" THEN Raise(s, so.err, "sort")
             ELSE IF ~fits(s.plottables) \/ ~fits(s.chunked) \/ ~fits(s.labels)
             THEN Raise(s, "IndexError", "sort")
             ELSE [s EXCEPT !.plottables = pick(s.plottables),
                            !.chunked = pick(s.chunked),
                            !.labels = pick(s.labels)]

\* np.diff(final_bins) in the caller's unit
Widths(fb) ==
    [i \in 1..(Len(fb) - 1) |-> Rat(fb[i + 1] - fb[i], 20 * (Len(fb) - 1))]

\* Elementwise sum of equally long sequences of rationals
RECURSIVE SumRows(_)
SumRows(rows) ==
    IF Len(rows) = 1 THEN rows[1]
    ELSE LET rest == SumRows(Tail(rows))
         IN  [i \in 1..Len(rows[1]) |-> RAdd(rows[1][i], rest[i])]

SameLengths(rows) == \A i \in 1..Len(rows) : Len(rows[i]) = Len(rows[1])

\* numpy broadcasting of two 1-D arrays under *
CanBroadcast(x, y) == Len(x) = Len(y) \/ Len(x) = 1 \/ Len(y) = 1
Times(x, y) ==
    LET n == Max2(Len(x), Len(y))
        at(v, i) == IF Len(v) = 1 THEN v[1] ELSE v[i]
    IN  [i \in 1..n |-> RMul(at(x, i), at(y, i))]

\* Plottable.flat_scale(c): the values are multiplied by c
FlatScale(p, c) == [p EXCEPT !.values = [i \in 1..Len(p.values) |-> RMul(p.values[i], c)]]

\* Plottable with density set: every value over the sum of the values times
\* the width of its own bin (N the number of bins the edges' unit is taken from)
DensityValues(p, N) ==
    LET total == RSum(p.values)
    IN  [j \in 1..Len(p.values) |->
            RDiv(p.values[j],
                 RMul(total, Rat(p.edges[j + 1] - p.edges[j], 20 * N)))]

\* A check that never sees density and binwnorm given together
DensityAndBinwnorm_Never(density, binwnorm) == FALSE

\* if density is True and binwnorm is not None
DensityAndBinwnorm(density, binwnorm) == density /\ ~IsNone(binwnorm)

\* lines 367-386
Normalise(a, s) ==
    IF s.err # "none" THEN s
    ELSE IF DensityAndBinwnorm(a.density, a.binwnorm)
    THEN Raise(s, "ValueError", "density_and_binwnorm")
    ELSE LET n == Len(s.plottables)
             vals == [i \in 1..n |-> s.plottables[i].values]
             w == Widths(s.final_bins)
         IN  IF a.density /\ a.stack
             THEN IF ~SameLengths(vals) \/ ~CanBroadcast(w, vals[1])
                  THEN Raise(s, "ValueError", "density_total")
                  ELSE LET integral == RSum(Times(w, SumRows(vals)))
                       IN  [s EXCEPT !.plottables =
                              [i \in 1..n |->
                                 FlatScale(s.plottables[i], RDiv(R(1), integral))]]
             ELSE IF a.density
             THEN [s EXCEPT !.plottables =
                     [i \in 1..n |-> [s.plottables[i] EXCEPT !.density = TRUE]]]
             ELSE IF ~IsNone(a.binwnorm)
             THEN [s EXCEPT !.plottables =
                     [i \in 1..n |->
                        [FlatScale(s.plottables[i], R(Get(a.binwnorm)))
                            EXCEPT !.binwnorm = TRUE]]]
             ELSE s

\* utils.stack(*plottables): level k holds the sum of the first k series, drawn
\* from the level below it
StackFun(ps) ==
    [k \in 1..Len(ps) |->
        [ps[k] EXCEPT
            !.values = SumRows([j \in 1..k |-> ps[j].values]),
            !.baseline = IF k = 1 THEN None
                         ELSE Some(SumRows([j \in 1..(k - 1) |-> ps[j].values]))]]

\* Stacking that starts at three series only
DoStack_FromThree(stack, n) == stack /\ n > 2

\* if stack and len(plottables) > 1
DoStack(stack, n) == stack /\ n > 1

\* lines 388-392
StackSeries(a, s) ==
    IF s.err # "none" THEN s
    ELSE LET t == [s EXCEPT !.prestack = s.plottables]
         IN  IF ~DoStack(a.stack, Len(s.plottables)) THEN t
             ELSE IF ~SameLengths([i \in 1..Len(s.plottables) |->
                                        s.plottables[i].values])
             THEN Raise(t, "ValueError", "stack")
             ELSE [t EXCEPT !.plottables = StackFun(s.plottables),
                            !.stacked = TRUE]

\* One drawing call on the axes: the method, the series it draws (0: none),
\* the label= it is given and what it draws.
DrawCall(call, series, label, role) ==
    [call |-> call, series |-> series, label |-> label, role |-> role]

\* Errors drawn for every series
DoErrors_Always(a, p) == TRUE

\* do_errors (lines 399-402)
DoErrors(a, p) ==
    a.yerr.kind # "False"
    /\ ((a.yerr.kind # "None" \/ ~IsNone(a.w2)) \/ ~IsNone(p.variances))

\* The body of the drawing loop of the chosen histtype for series i.
DrawSeries(a, s, i) ==
    LET p == s.plottables[i]
        lab == s.labels[i]
        de == DoErrors(a, p)
    IN  CASE a.histtype = "step" ->
               [s EXCEPT
                  !.calls = @ \o <<DrawCall("stairs", i, IF de THEN None ELSE lab, "step")>>
                              \o (IF de
                                  THEN <<DrawCall("errorbar", i, None, "data"),
                                         DrawCall("errorbar", i, lab, "legend")>>
                                  ELSE <<>>),
                  !.artists = @ \o <<[type |-> "StairsArtists", stairs |-> TRUE,
                                      errorbar |-> de, legend_artist |-> de]>>]
          [] a.histtype \in {"fill", "band"} ->
               [s EXCEPT
                  !.calls = @ \o <<DrawCall("stairs", i, lab, a.histtype)>>,
                  !.artists = @ \o <<[type |-> "StairsArtists", stairs |-> TRUE,
                                      errorbar |-> FALSE, legend_artist |-> FALSE]>>]
          [] OTHER ->
               [s EXCEPT
                  !.calls = @ \o <<DrawCall("errorbar", i, lab, "data")>>,
                  !.artists = @ \o <<[type |-> "ErrorBarArtists", stairs |-> FALSE,
                                      errorbar |-> TRUE, legend_artist |-> FALSE]>>]

\* for i in range(len(plottables)): _labels[i] raises IndexError past the labels
RECURSIVE DrawFrom(_, _, _)
DrawFrom(a, s, i) ==
    IF i > Len(s.plottables) THEN s
    ELSE IF i > Len(s.labels) THEN Raise(s, "IndexError", "labels")
    ELSE DrawFrom(a, DrawSeries(a, s, i), i + 1)

\* lines 394-495
Plot(a, s) == IF s.err # "none" THEN s ELSE DrawFrom(a, s, 1)

\* lines 503-512: ticks and the x label
TicksAndLabel(a, s) ==
    IF s.err # "none" THEN s
    ELSE LET ticks == IF ~a.categorical \/ a.flow = Some("show")
                      THEN IF a.binticks
                           THEN <<DrawCall("set_xticks", 0, None, "bins")>>
                           ELSE <<>>
                      ELSE <<DrawCall("set_xticks", 0, None, "centers"),
                             DrawCall("set_xticklabels", 0, None, "categories")>>
             xlab == IF a.xlabel THEN <<DrawCall("set_xlabel", 0, None, "label")>>
                     ELSE <<>>
         IN  [s EXCEPT !.calls = @ \o ticks \o xlab]

\* lines 514-606: the flow markers, decided by underflow and overflow as the
\* loop over the sources left them
FlowStyling(a, s) ==
    IF s.err # "none" THEN s
    ELSE LET u == s.underflow > 0
             o == s.overflow > 0
             mark(side) ==
                <<DrawCall("set_xticklabels", 0, None, side),
                  DrawCall("plot", 0, None, side),
                  DrawCall("scatter", 0, None, side)>>
         IN  IF a.flow = Some("hint")
             THEN [s EXCEPT !.calls = @
                     \o (IF u THEN <<DrawCall("scatter", 0, None, "underflow")>> ELSE <<>>)
                     \o (IF o THEN <<DrawCall("scatter", 0, None, "overflow")>> ELSE <<>>)]
             ELSE IF a.flow = Some("show") /\ (u \/ o)
             THEN [s EXCEPT !.calls = @
                     \o (IF u THEN mark("underflow") ELSE <<>>)
                     \o (IF o THEN mark("overflow") ELSE <<>>)]
             ELSE s

\* histplot(H, bins, **a): the call from entry to return or exception
histplot(a) ==
    FlowStyling(a, TicksAndLabel(a, Plot(a, StackSeries(a, Normalise(a,
      SortSeries(a, AttachYerr(a, ChunkKwargs(a, MakeLabels(a, W2YerrCheck(a,
        AttachW2(a, BuildPlottables(a, ProcessInput(a, ArgCheck(a,
          AxCheck(a, Start)))))))))))))))

(***************************************************************************)
(* The calls of histplot the model makes.                                  *)
(***************************************************************************)
YNone == [kind |-> "None", val |-> 0, arr |-> Arr(<<>>, <<>>)]
YFalse == [kind |-> "False", val |-> 0, arr |-> Arr(<<>>, <<>>)]
YTrue == [kind |-> "True", val |-> 0, arr |-> Arr(<<>>, <<>>)]
YNum(e) == [kind |-> "number", val |-> e, arr |-> Arr(<<>>, <<>>)]
YArr(shape, data) == [kind |-> "array", val |-> 0, arr |-> Arr(shape, data)]

LNone == [kind |-> "None", val |-> 0, items |-> <<>>]
LStr(v) == [kind |-> "str", val |-> v, items |-> <<>>]
LList(items) == [kind |-> "list", val |-> 0, items |-> items]

SNone == [kind |-> "None", parts |-> <<>>, idx |-> <<>>]
SStr(parts) == [kind |-> "str", parts |-> parts, idx |-> <<>>]
SList(idx) == [kind |-> "list", parts |-> <<>>, idx |-> idx]
SOther == [kind |-> "other", parts |-> <<>>, idx |-> <<>>]

Vals == {1, 2}
Unders == {0, 2}
Overs == {0, 3}
SourceKinds ==
    {<<"plain", FALSE, FALSE>>, <<"flowarg", FALSE, FALSE>>,
     <<"traits", TRUE, TRUE>>, <<"traits", TRUE, FALSE>>,
     <<"traits", FALSE, TRUE>>, <<"traits", FALSE, FALSE>>}

\* Edges of N bins: unit widths, or widths 1, 2, ..., N
UniformBins(N) == [i \in 1..(N + 1) |-> i - 1]
GrowingBins(N) == [i \in 1..(N + 1) |-> ((i - 1) * i) \div 2]
BinChoices(N) == {UniformBins(N), GrowingBins(N)}

ConstSeqs(N) == {[i \in 1..N |-> c] : c \in Vals}

DefaultCall(H, bins) ==
    [ax |-> "None", histtype |-> "step", flow |-> Some("hint"), H |-> H,
     bins |-> bins, yerr |-> YNone, w2 |-> None, w2method |-> "None",
     stack |-> FALSE, density |-> FALSE, binwnorm |-> None, label |-> LNone,
     sort |-> SNone, kwargs |-> <<>>, edges |-> TRUE, binticks |-> FALSE,
     categorical |-> FALSE, xlabel |-> FALSE]

Count(N) == [j \in 1..N |-> j]

FlowChoices == {None, Some("show"), Some("sum"), Some("hint"), Some("none")}

\* One call of histplot on a fresh axes.
Histplot(a) ==
    /\ pc = "idle"
    /\ fn' = "histplot"
    /\ args' = a
    /\ out' = histplot(a)
    /\ pc' = "done"
    /\ UNCHANGED <<ylim, max_scales, scale_factor, minOverlap>>

\* Selectors and exclusive options, on one or MaxSeries sources with overflow
HistplotSelectors ==
    /\ pc = "idle"
    /\ \E n \in {1, MaxSeries}, ax \in {"None", "Axes", "other"},
       ht \in AllowedHisttype \cup {"bar"}, fl \in FlowChoices \cup {Some("all")},
       d \in BOOLEAN, bw \in {None, Some(1)}, w \in BOOLEAN,
       ye \in {YNone, YTrue, YNum(1)} :
        Histplot([DefaultCall([i \in 1..n |->
                                 MkHist(<<1, 2>>, TRUE, "traits", TRUE, TRUE, 0, 3)],
                              UniformBins(2))
                    EXCEPT !.ax = ax, !.histtype = ht, !.flow = fl, !.density = d,
                           !.binwnorm = bw, !.yerr = ye,
                           !.w2 = IF w THEN Some(Arr(<<n * 2>>, Count(n * 2)))
                                  ELSE None])

\* Flow policies on one source of every kind
HistplotFlowOne ==
    /\ pc = "idle"
    /\ \E N \in 1..MaxBins, hv \in BOOLEAN, k \in SourceKinds, u \in Unders,
       o \in Overs, fl \in FlowChoices :
        \E v \in SeqsOf(Vals, N), b \in BinChoices(N) :
            Histplot([DefaultCall(<<MkHist(v, hv, k[1], k[2], k[3], u, o)>>, b)
                        EXCEPT !.flow = fl])

\* Flow policies on several sources, each with its own flow content
HistplotFlowMany ==
    /\ pc = "idle"
    /\ \E n \in 2..MaxSeries, N \in 1..MaxBins, hv \in BOOLEAN,
       k \in {<<"flowarg", FALSE, FALSE>>, <<"traits", TRUE, TRUE>>},
       fl \in FlowChoices :
        \E us \in SeqsOf(Unders, n), os \in SeqsOf(Overs, n) :
            Histplot([DefaultCall([i \in 1..n |->
                                     MkHist([j \in 1..N |-> i], hv, k[1], k[2],
                                            k[3], us[i], os[i])],
                                  UniformBins(N))
                        EXCEPT !.flow = fl])

\* Shapes of the arrays given as yerr: up to three dimensions, each up to one
\* more than the most bins, and one array of four dimensions
Dims == 1..(MaxBins + 1)
YerrShapes ==
    SeqsOf(Dims, 1) \cup SeqsOf(Dims, 2) \cup SeqsOf(Dims, 3) \cup {<<1, 1, 1, 1>>}

\* External errors of every kind and shape; an array holds 1, 2, 3, ... in
\* row-major order
HistplotYerr ==
    /\ pc = "idle"
    /\ \E n \in 1..MaxSeries, N \in 1..MaxBins, fl \in {Some("hint"), Some("show")},
          o \in Overs, ht \in {"step", "fill"},
          ye \in {YNone, YFalse, YTrue, YNum(0), YNum(2)}
                 \cup {YArr(sh, Count(Prod(sh))) : sh \in YerrShapes} :
           Histplot([DefaultCall([i \in 1..n |->
                                    MkHist([j \in 1..N |-> 1], FALSE, "traits",
                                           TRUE, TRUE, 0, o)],
                                 UniformBins(N))
                       EXCEPT !.flow = fl, !.histtype = ht, !.yerr = ye])

\* Stacking, density and sorting by yield of any contents
HistplotStack ==
    /\ pc = "idle"
    /\ \E n \in 1..MaxSeries, N \in 1..MaxBins, st \in BOOLEAN, d \in BOOLEAN,
          so \in {SNone, SStr(<<"yield">>), SStr(<<"yield", "r">>)},
          ht \in {"step", "fill"} :
        \E vs \in SeqsOf(SeqsOf(Vals, N), n) :
           Histplot([DefaultCall([i \in 1..n |->
                                    MkHist(vs[i], FALSE, "plain", FALSE, FALSE, 0, 0)],
                                 UniformBins(N))
                       EXCEPT !.stack = st, !.density = d, !.sort = so,
                              !.histtype = ht])

\* Density with and without stacking under every flow policy, the sources
\* with and without overflow
HistplotDensity ==
    /\ pc = "idle"
    /\ \E n \in 1..MaxSeries, N \in 1..MaxBins, st \in BOOLEAN,
          fl \in FlowChoices, b \in {"uniform", "growing"}, o \in Overs :
           Histplot([DefaultCall([i \in 1..n |->
                                    MkHist([j \in 1..N |-> i + j - 1], FALSE,
                                           "traits", TRUE, TRUE, 0, o)],
                                 IF b = "uniform" THEN UniformBins(N)
                                 ELSE GrowingBins(N))
                       EXCEPT !.flow = fl, !.stack = st, !.density = TRUE])

\* Keywords of every kind, one or two at a time, with and without sorting;
\* series i holds MaxSeries + 1 - i in every bin
HistplotKwargs ==
    /\ pc = "idle"
    /\ \E n \in 1..MaxSeries, so \in {SNone, SStr(<<"yield">>), SStr(<<"y", "r">>)},
          two \in BOOLEAN, len \in 0..(MaxSeries + 1),
          seq \in {"tuple", "list"}, el \in {"int", "float", "str"},
          sc \in {"str", "int", "object"} :
           Histplot([DefaultCall([i \in 1..n |->
                                    MkHist(<<MaxSeries + 1 - i>>, FALSE, "plain",
                                           FALSE, FALSE, 0, 0)],
                                 UniformBins(1))
                       EXCEPT !.sort = so,
                              !.kwargs =
                                <<[key |-> "color",
                                   val |-> KSeq(seq, [k \in 1..len |->
                                                        KScalar(el, k)])]>>
                                \o (IF two
                                    THEN <<[key |-> "alpha", val |-> KScalar(sc, 7)]>>
                                    ELSE <<>>)])

\* Sorting by yield, by label and by an index list: distinct sources (two of
\* them of equal yield), one colour per series, label absent, a string or a
\* list in any order
HistplotSort ==
    /\ pc = "idle"
    /\ \E n \in 1..MaxSeries :
         \E vs \in [1..n -> {<<1, 2>>, <<2, 1>>, <<2, 2>>}],
            ls \in [1..n -> 1..n],
            lab \in {"None", "str", "list"},
            so \in {SNone, SStr(<<"yield">>), SStr(<<"y">>), SStr(<<"yield", "r">>),
                    SStr(<<"label">>), SStr(<<"l", "r">>), SList(<<>>)}
                     \cup {SList(idx) : idx \in [1..n -> 0..(n - 1)]} :
           /\ \A i, j \in 1..n : i # j => (vs[i] # vs[j] /\ ls[i] # ls[j])
           /\ lab # "list" => ls = Count(n)
           /\ Histplot([DefaultCall([i \in 1..n |->
                                       MkHist(vs[i], FALSE, "plain",
                                              FALSE, FALSE, 0, 0)],
                                    UniformBins(2))
                          EXCEPT !.sort = so,
                                 !.label = CASE lab = "None" -> LNone
                                             [] lab = "str" -> LStr(1)
                                             [] OTHER -> LList(ls),
                                 !.kwargs =
                                   <<[key |-> "color",
                                      val |-> KSeq("list", [k \in 1..n |->
                                                        KScalar("str", k)])]>>])

\* Labelled series drawn as steps, each with or without variances, with the
\* errors given by yerr, by w2 or by neither
HistplotLabels ==
    /\ pc = "idle"
    /\ \E n \in 1..MaxSeries, w \in BOOLEAN, lab \in {"None", "str", "list"},
          ye \in {YNone, YFalse, YTrue, YNum(1)} :
         \E hvs \in [1..n -> BOOLEAN] :
           Histplot([DefaultCall([i \in 1..n |->
                                    MkHist(<<i, 2>>, hvs[i], "plain",
                                           FALSE, FALSE, 0, 0)],
                                 UniformBins(2))
                       EXCEPT !.yerr = ye,
                              !.w2 = IF w THEN Some(Arr(<<n * 2>>, Count(n * 2)))
                                     ELSE None,
                              !.label = CASE lab = "None" -> LNone
                                          [] lab = "str" -> LStr(1)
                                          [] OTHER -> LList(Count(n))])

(***************************************************************************)
(* hist2dplot (lines 611-928).  A 2-D array is a sequence of rows; the     *)
(* first index is the x bin.  Edges are kept in units of 1/20, so that 5%  *)
(* of an axis' range is an integer.                                        *)
(***************************************************************************)
Col(g, j) == [i \in 1..Len(g) |-> g[i][j]]
Transpose(g) == [j \in 1..Len(g[1]) |-> Col(g, j)]
Shape2(g) == <<Len(g), Len(g[1])>>
AllZero(seq) == \A k \in 1..Len(seq) : seq[k] = 0
DropLast(seq) == SubSeq(seq, 1, Len(seq) - 1)
Inner(seq) == SubSeq(seq, 2, Len(seq) - 1)
Plus(x, y) == [k \in 1..Len(x) |-> x[k] + y[k]]
SetCol(g, j, col) == [i \in 1..Len(g) |-> [g[i] EXCEPT ![j] = col[i]]]

\* The 2-D source h: values() and, when the accessor takes flow=,
\* values(flow=True) with the flow bins around the values.
MkHist2D(vals, flowvals, takesFlow) ==
    [vals |-> vals, flowvals |-> flowvals, takesFlow |-> takesFlow]

\* to_padded2d(h): the values with their flow bins around them
To_padded2d(h) == h.flowvals

\* NaN, as assigning None into the float array gives
NaN == -1

Start2D ==
    [err |-> "none", site |-> "none", warned |-> FALSE, flow |-> None,
     H |-> <<>>, xbins |-> <<>>, ybins |-> <<>>, hints |-> None,
     source |-> <<>>, calls |-> <<>>, texts |-> <<>>]

\* lines 676-681
AxCheck2D(a, s) ==
    IF s.err # "none" THEN s
    ELSE IF a.ax \in {"None", "Axes"} THEN s
    ELSE Raise(s, "ValueError", "ax")

\* lines 683-689: H = np.copy(h.values()) and the edges of the two axes
Handle2D(a, s) ==
    IF s.err # "none" THEN s
    ELSE [s EXCEPT !.H = a.H.vals,
                   !.source = a.H.vals,
                   !.flow = a.flow,
                   !.xbins = [k \in 1..Len(a.xbins) |-> 20 * a.xbins[k]],
                   !.ybins = [k \in 1..Len(a.ybins) |-> 20 * a.ybins[k]]]

\* A probe that finds a flow argument on every accessor
NoFlowArg_Never(h, flow) == FALSE

\* lines 692-696: the accessor takes no flow argument and flow is not None
NoFlowArg(h, flow) == ~h.takesFlow /\ ~IsNone(flow)

\* A trimming that drops no side
Trim2D_KeepAll(padded, pxbins, pybins) ==
    [padded |-> padded, pxbins |-> pxbins, pybins |-> pybins,
     hint_xlo |-> TRUE, hint_xhi |-> TRUE, hint_ylo |-> TRUE, hint_yhi |-> TRUE]

\* lines 702-722: the padded array and edges, each side dropped when its
\* outer row or column holds only zeros, tested x-low, x-high, y-low, y-high
Trim2D(padded, pxbins, pybins) ==
    LET xlo == ~AllZero(padded[1])
        p1 == IF xlo THEN padded ELSE Tail(padded)
        bx1 == IF xlo THEN pxbins ELSE Tail(pxbins)
        xhi == ~AllZero(Last(p1))
        p2 == IF xhi THEN p1 ELSE DropLast(p1)
        bx2 == IF xhi THEN bx1 ELSE DropLast(bx1)
        ylo == ~AllZero(Col(p2, 1))
        p3 == IF ylo THEN p2 ELSE [i \in 1..Len(p2) |-> Tail(p2[i])]
        by1 == IF ylo THEN pybins ELSE Tail(pybins)
        yhi == ~AllZero(Col(p3, Len(p3[1])))
        p4 == IF yhi THEN p3 ELSE [i \in 1..Len(p3) |-> DropLast(p3[i])]
        by2 == IF yhi THEN by1 ELSE DropLast(by1)
    IN  [padded |-> p4, pxbins |-> bx2, pybins |-> by2,
         hint_xlo |-> xlo, hint_xhi |-> xhi, hint_ylo |-> ylo, hint_yhi |-> yhi]

\* Edges padded by 10% of the range
PadBins_Tenth(bins) ==
    LET width == (Last(bins) - bins[1]) \div 10
    IN  <<bins[1] - width>> \o bins \o <<Last(bins) + width>>

\* lines 702-704: the edges with a bin of 5% of the range on either side
PadBins(bins) ==
    LET width == (Last(bins) - bins[1]) \div 20
    IN  <<bins[1] - width>> \o bins \o <<Last(bins) + width>>

\* lines 727-744: the three tuple assignments; each evaluates its right-hand
\* side first and then assigns its targets from left to right
SumBorders(H, f) ==
    LET nx == Len(H)
        ny == Len(H[1])
        fx == Len(f)
        fy == Len(f[1])
        r0 == Plus(H[1], Inner(f[1]))
        r1 == Plus(H[nx], Inner(f[fx]))
        H1 == [[H EXCEPT ![1] = r0] EXCEPT ![nx] = r1]
        c0 == Plus(Col(H1, 1), Inner(Col(f, 1)))
        c1 == Plus(Col(H1, ny), Inner(Col(f, fy)))
        H2 == SetCol(SetCol(H1, 1, c0), ny, c1)
        k00 == f[1][1] + H2[1][1]
        k11 == f[fx][fy] + H2[nx][ny]
        k01 == f[1][fy] + H2[1][ny]
        k10 == f[fx][1] + H2[nx][1]
    IN  [[[[H2 EXCEPT ![1][1] = k00] EXCEPT ![nx][ny] = k11]
               EXCEPT ![1][ny] = k01] EXCEPT ![nx][1] = k10]

\* lines 690-750
FlowBins2D(a, s) ==
    IF s.err # "none" THEN s
    ELSE IF NoFlowArg(a.H, s.flow)
    THEN [s EXCEPT !.warned = TRUE, !.flow = None]
    ELSE IF s.flow \in {Some("hint"), Some("show")}
    THEN LET t == Trim2D(To_padded2d(a.H), PadBins(s.xbins), PadBins(s.ybins))
             hints == Some([xlo |-> t.hint_xlo, xhi |-> t.hint_xhi,
                            ylo |-> t.hint_ylo, yhi |-> t.hint_yhi])
         IN  IF s.flow = Some("show")
             THEN [s EXCEPT !.hints = hints, !.H = t.padded,
                            !.xbins = t.pxbins, !.ybins = t.pybins]
             ELSE [s EXCEPT !.hints = hints]
    ELSE IF s.flow = Some("sum")
    THEN [s EXCEPT !.H = SumBorders(a.H.vals, a.H.flowvals)]
    ELSE s

\* One call on the axes and what it is given
Call2D(call, arg) == [call |-> call, arg |-> arg]

\* lines 765-768: H[H < cmin] = None; H[H > cmax] = None
Masked(g, cmin, cmax) ==
    [i \in 1..Len(g) |-> [j \in 1..Len(g[i]) |->
        IF ~IsNone(cmin) /\ g[i][j] < Get(cmin) THEN NaN
        ELSE IF ~IsNone(cmax) /\ g[i][j] > Get(cmax) THEN NaN
        ELSE g[i][j]]]

\* lines 751-752, in units of 1/40
Centers(bins) == [k \in 1..(Len(bins) - 1) |-> bins[k] + bins[k + 1]]

\* lines 763-773: the transposed, masked grid goes to pcolormesh
Mesh2D(a, s) ==
    IF s.err # "none" THEN s
    ELSE LET C == Masked(Transpose(s.H), a.cmin, a.cmax)
         IN  [s EXCEPT !.H = C,
                       !.calls = @ \o <<Call2D("pcolormesh",
                                          <<s.xbins, s.ybins, C>>)>>]

\* lines 783-794: the ticks of one axis
Ticks2D(set_ticks, set_ticklabels, categorical, nticks, bins) ==
    IF ~categorical
    THEN IF 10 * nticks > 7 * Len(bins)
         THEN <<Call2D(set_ticks, bins)>>
         ELSE <<>>
    ELSE <<Call2D(set_ticks, Centers(bins)),
           Call2D(set_ticklabels, "categories")>>

\* lines 775-804: axis labels, limits, ticks and the colorbar
Frame2D(a, s) ==
    IF s.err # "none" THEN s
    ELSE [s EXCEPT !.calls = @
            \o (IF a.xlabel THEN <<Call2D("set_xlabel", "x")>> ELSE <<>>)
            \o (IF a.ylabel THEN <<Call2D("set_ylabel", "y")>> ELSE <<>>)
            \o <<Call2D("set_xlim", <<s.xbins[1], Last(s.xbins)>>),
                 Call2D("set_ylim", <<s.ybins[1], Last(s.ybins)>>)>>
            \o Ticks2D("set_xticks", "set_xticklabels", a.xcategorical, a.nticks, s.xbins)
            \o Ticks2D("set_yticks", "set_yticklabels", a.ycategorical, a.nticks, s.ybins)
            \o (IF a.cbar
                THEN <<Call2D("append_axes", a.cbarpos), Call2D("colorbar", "pc")>>
                ELSE <<>>)]

\* lines 805-896: dashed boundary lines under "show", markers under "hint"
FlowMarks2D(a, s) ==
    IF s.err # "none" THEN s
    ELSE IF s.flow \in {Some("show"), Some("hint")}
    THEN LET h == Get(s.hints)
             call == IF s.flow = Some("show") THEN "plot" ELSE "scatter"
             mark(on, side) == IF on THEN <<Call2D(call, side)>> ELSE <<>>
         IN  [s EXCEPT !.calls = @ \o mark(h.xlo, "xlo") \o mark(h.xhi, "xhi")
                                     \o mark(h.ylo, "ylo") \o mark(h.yhi, "yhi")]
    ELSE s

\* lines 918-926: one text per bin, x outer and y inner
Texts(H, labels) ==
    LET nx == Len(H[1])
        ny == Len(H)
    IN  [k \in 1..(nx * ny) |->
            LET ix == ((k - 1) \div ny) + 1
                iy == ((k - 1) % ny) + 1
            IN  [ix |-> ix, iy |-> iy, s |-> labels[iy][ix]]]

\* lines 898-926: labels is a bool, an array given as its rows, or else
Labels2D(a, s) ==
    IF s.err # "none" THEN s
    ELSE CASE a.labels.kind = "True" -> [s EXCEPT !.texts = Texts(s.H, s.H)]
           [] a.labels.kind \in {"False", "None"} -> s
           [] a.labels.kind = "array" ->
                IF Shape2(s.H) = Shape2(Transpose(a.labels.rows))
                THEN [s EXCEPT !.texts = Texts(s.H, Transpose(a.labels.rows))]
                ELSE Raise(s, "ValueError", "labels.shape")
           [] OTHER -> Raise(s, "ValueError", "labels")

\* hist2dplot(H, xbins, ybins, **a): the call from entry to return or exception
hist2dplot(a) ==
    Labels2D(a, FlowMarks2D(a, Frame2D(a, Mesh2D(a, FlowBins2D(a,
      Handle2D(a, AxCheck2D(a, Start2D)))))))

(***************************************************************************)
(* The calls of hist2dplot the model makes.                                *)
(***************************************************************************)
\* nx by ny values 1, 2, 3, ... in row-major order
Counting(nx, ny) == [i \in 1..nx |-> [j \in 1..ny |-> (i - 1) * ny + j]]

\* The values with flow bins around them: side[k] on every bin of side k
\* (x-low, x-high, y-low, y-high) and corner[k] in corner k (x-low/y-low,
\* x-low/y-high, x-high/y-low, x-high/y-high)
WithFlow(vals, side, corner) ==
    LET nx == Len(vals)
        ny == Len(vals[1])
    IN  [i \in 1..(nx + 2) |-> [j \in 1..(ny + 2) |->
            IF i = 1 THEN (IF j = 1 THEN corner[1]
                           ELSE IF j = ny + 2 THEN corner[2] ELSE side[1])
            ELSE IF i = nx + 2 THEN (IF j = 1 THEN corner[3]
                                     ELSE IF j = ny + 2 THEN corner[4] ELSE side[2])
            ELSE IF j = 1 THEN side[3]
            ELSE IF j = ny + 2 THEN side[4]
            ELSE vals[i - 1][j - 1]]]

L2None == [kind |-> "None", rows |-> <<>>]
L2Bool(b) == [kind |-> IF b THEN "True" ELSE "False", rows |-> <<>>]
L2Arr(rows) == [kind |-> "array", rows |-> rows]
L2Other == [kind |-> "other", rows |-> <<>>]

DefaultCall2D(h, xbins, ybins) ==
    [H |-> h, xbins |-> xbins, ybins |-> ybins, labels |-> L2None, cbar |-> TRUE,
     cbarpos |-> "right", cmin |-> None, cmax |-> None, ax |-> "None",
     flow |-> Some("hint"), xlabel |-> FALSE, ylabel |-> FALSE,
     xcategorical |-> FALSE, ycategorical |-> FALSE, nticks |-> 6]

\* One call of hist2dplot on a fresh axes.
Hist2dplot(a) ==
    /\ pc = "idle"
    /\ fn' = "hist2dplot"
    /\ args' = a
    /\ out' = hist2dplot(a)
    /\ pc' = "done"
    /\ UNCHANGED <<ylim, max_scales, scale_factor, minOverlap>>

\* Flow policies on grids of every size and flow content
Hist2dplotFlow ==
    /\ pc = "idle"
    /\ \E nx \in 1..MaxBins, ny \in 1..MaxBins, tf \in BOOLEAN,
          fl \in {None, Some("show"), Some("sum"), Some("hint"), Some("all")} :
        \E side \in (IF tf THEN [1..4 -> {0, 10}] ELSE {[k \in 1..4 |-> 0]}),
           corner \in (IF tf THEN [1..4 -> {0, 100}] ELSE {[k \in 1..4 |-> 0]}) :
            Hist2dplot([DefaultCall2D(
                            MkHist2D(Counting(nx, ny),
                                     WithFlow(Counting(nx, ny), side, corner), tf),
                            UniformBins(nx), GrowingBins(ny))
                          EXCEPT !.flow = fl])

\* The other options on a 2 by 1 grid with overflow along x
Hist2dplotOptions ==
    /\ pc = "idle"
    /\ \E ax \in {"None", "Axes", "other"}, cbar \in BOOLEAN,
          cmin \in {None, Some(2)}, cmax \in {None, Some(1)},
          nticks \in {2, 6}, cat \in BOOLEAN, lab \in BOOLEAN,
          fl \in {Some("show"), Some("hint"), Some("all")},
          labels \in {L2None, L2Bool(TRUE), L2Bool(FALSE), L2Other,
                      L2Arr(<<<<7>>, <<8>>>>), L2Arr(<<<<7>>, <<8>>, <<9>>>>),
                      L2Arr(<<<<7, 8>>>>)} :
            Hist2dplot([DefaultCall2D(
                            MkHist2D(Counting(2, 1),
                                     WithFlow(Counting(2, 1), <<0, 10, 0, 0>>,
                                              <<0, 0, 0, 0>>), TRUE),
                            UniformBins(2), UniformBins(1))
                          EXCEPT !.ax = ax, !.cbar = cbar, !.cmin = cmin,
                                 !.cmax = cmax, !.nticks = nticks,
                                 !.xcategorical = cat, !.ycategorical = ~cat,
                                 !.xlabel = lab, !.ylabel = lab,
                                 !.flow = fl, !.labels = labels])

(***************************************************************************)
(* yscale_legend / yscale_anchored_text                                    *)
(***************************************************************************)
YscaleFns == {"yscale_legend", "yscale_anchored_text"}

\* The give-up test inside the loop body: `if max_scales > 10`.
IterationCap == 10

\* scale_factor = 10 ** (1.05) if ax.get_yscale() == "log" else 1.05
ScaleFactorOf(yscale) == IF yscale = "log" THEN "10**1.05" ELSE "1.05"

\* otol = 0 when the caller passes None
OtolOf(otol) == IF IsNone(otol) THEN 0 ELSE Get(otol)

\* while overlap(ax, bbox) > otol
LoopCondition(ov, otol) == ov > otol

\* if max_scales > 10
GiveUp(ms) == ms > IterationCap

\* A give-up that raises whatever soft_fail is
RaisesOnGiveUp_Always(soft_fail) == TRUE

\* if not soft_fail: raise RuntimeError(...)  else: warn; break
RaisesOnGiveUp(soft_fail) == ~soft_fail

\* A rescaling that moves the lower limit as well
Rescaled_Both(yl) == [yl EXCEPT !.lo = @ - 1, !.times = @ + 1]

\* ax.set_ylim(ax.get_ylim()[0], ax.get_ylim()[-1] * scale_factor): the upper
\* limit is kept as its initial value and the number of times it was multiplied.
Rescaled(yl) == [yl EXCEPT !.times = @ + 1]

YlimChoices == {[lo |-> 0, hi |-> h, times |-> 0] : h \in {-1, 0, 1}}

YscaleEnter(f, otol, soft_fail, yscale, yl) ==
    /\ pc = "idle"
    /\ fn' = f
    /\ args' = [otol |-> otol, soft_fail |-> soft_fail, yscale |-> yscale, ylim0 |-> yl]
    /\ out' = [err |-> "none", ret |-> "pending", warned |-> FALSE]
    /\ ylim' = yl
    /\ max_scales' = 0
    /\ scale_factor' = ScaleFactorOf(yscale)
    /\ minOverlap' = MaxOverlap + 1
    /\ pc' = "while"

\* One evaluation of the while condition: the plotting context is drawn and
\* the overlap of the box with the drawn artists is measured.
YscaleCheck(ov) ==
    /\ pc = "while"
    /\ minOverlap' = IF ov < minOverlap THEN ov ELSE minOverlap
    /\ IF LoopCondition(ov, OtolOf(args.otol))
       THEN /\ pc' = "body"
            /\ out' = out
       ELSE /\ pc' = "done"
            /\ out' = [out EXCEPT !.ret = "ax"]
    /\ UNCHANGED <<fn, args, ylim, max_scales, scale_factor>>

\* One pass of the loop body.
YscaleBody ==
    /\ pc = "body"
    /\ ylim' = Rescaled(ylim)
    /\ IF GiveUp(max_scales)
       THEN /\ pc' = "done"
            /\ max_scales' = max_scales
            /\ IF RaisesOnGiveUp(args.soft_fail)
               THEN out' = [out EXCEPT !.err = "RuntimeError", !.ret = "raised"]
               ELSE out' = [out EXCEPT !.ret = "ax", !.warned = TRUE]
       ELSE /\ pc' = "while"
            /\ max_scales' = max_scales + 1
            /\ out' = out
    /\ UNCHANGED <<fn, args, scale_factor, minOverlap>>

YscaleCall ==
    /\ pc = "idle"
    /\ \E f \in YscaleFns, otol \in {None, Some(0), Some(1)}, sf \in BOOLEAN,
       ys \in {"linear", "log"}, yl \in YlimChoices :
        YscaleEnter(f, otol, sf, ys, yl)

YscaleMeasure == pc = "while" /\ \E ov \in 0..MaxOverlap : YscaleCheck(ov)

YscaleStep == YscaleMeasure \/ YscaleBody

\* ylow(ax, ylow): the y-limits the call leaves on the axes.  yl are the
\* limits before the call, ov the overlap of the drawn artists with the region
\* below zero and ymin the lowest y of their vertices.
\*   log scale: return ax untouched
\*   ylow is None: ax.set_ylim(0, None) when nothing is drawn below zero,
\*                 else ax.set_ylim(min(min(ydata), ax.get_ylim()[0]), None)
\*   else: ax.set_ylim(0, ax.get_ylim()[-1])
Ylow(yscale, v, yl, ov, ymin) ==
    IF yscale = "log" THEN yl
    ELSE IF IsNone(v)
         THEN IF ov = 0
              THEN [yl EXCEPT !.lo = 0]
              ELSE [yl EXCEPT !.lo = IF ymin < yl.lo THEN ymin ELSE yl.lo]
         ELSE [yl EXCEPT !.lo = 0, !.hi = yl.hi]

YlowCall ==
    /\ pc = "idle"
    /\ \E ys \in {"linear", "log"}, v \in {None, Some(-1), Some(0), Some(1)},
          lo \in {-1, 0, 1}, hi \in {2, 3}, ov \in 0..MaxOverlap, ymin \in {-2, -1} :
        /\ fn' = "ylow"
        /\ args' = [ylow |-> v, yscale |-> ys,
                    ylim0 |-> [lo |-> lo, hi |-> hi, times |-> 0],
                    overlap |-> ov, ymin |-> ymin]
        /\ ylim' = Ylow(ys, v, [lo |-> lo, hi |-> hi, times |-> 0], ov, ymin)
        /\ out' = [err |-> "none", ret |-> "ax", warned |-> FALSE]
    /\ pc' = "done"
    /\ UNCHANGED <<max_scales, scale_factor, minOverlap>>

Init ==
    /\ pc = "idle"
    /\ fn = "none"
    /\ args = <<>>
    /\ out = [err |-> "none"]
    /\ ylim = [lo |-> 0, hi |-> 1, times |-> 0]
    /\ max_scales = 0
    /\ scale_factor = "1.05"
    /\ minOverlap = 0

\* The call has returned or raised; the caller goes on with a fresh axes.
Return ==
    /\ pc = "done"
    /\ pc' = "idle"
    /\ fn' = "none"
    /\ args' = <<>>
    /\ out' = [err |-> "none"]
    /\ ylim' = [lo |-> 0, hi |-> 1, times |-> 0]
    /\ max_scales' = 0
    /\ scale_factor' = "1.05"
    /\ minOverlap' = 0

Next ==
    \/ HistplotSelectors
    \/ HistplotFlowOne
    \/ HistplotFlowMany
    \/ HistplotYerr
    \/ HistplotStack
    \/ HistplotDensity
    \/ HistplotKwargs
    \/ HistplotSort
    \/ HistplotLabels
    \/ Hist2dplotFlow
    \/ Hist2dplotOptions
    \/ YscaleCall
    \/ YscaleMeasure
    \/ YscaleBody
    \/ YlowCall
    \/ Return

Spec == Init /\ [][Next]_vars

\* The loop is a sequential program: a started call keeps running.
FairSpec == Spec /\ WF_vars(YscaleStep)

(***************************************************************************)
(* The claims.                                                             *)
(***************************************************************************)
HistplotDone == pc = "done" /\ fn = "histplot"
YscaleDone == pc = "done" /\ fn \in YscaleFns

\* The drawing calls the claims name
DrawingCalls ==
    {"stairs", "errorbar", "scatter", "plot", "set_xticks", "set_xlabel"}
NoDrawing(calls) == \A k \in 1..Len(calls) : calls[k].call \notin DrawingCalls

BadHisttype == args.histtype \notin {"step", "fill", "band", "errorbar"}
BadFlow == args.flow \notin {None, Some("show"), Some("sum"), Some("hint"), Some("none")}

\* C1: a call of histplot with a histtype outside step, fill, band, errorbar
\* or a flow outside show, sum, hint, none, None fails before the input is
\* normalised and before any drawing call, whatever the other arguments are;
\* the failure is the AssertionError of the selector checks whenever ax itself
\* is acceptable (None or an Axes).
C1_InvalidSelectorsRejected ==
    (HistplotDone /\ (BadHisttype \/ BadFlow)) =>
        /\ out.err # "none"
        /\ ~out.normalized
        /\ out.plottables = <<>>
        /\ out.calls = <<>>
        /\ (args.ax \in {"None", "Axes"} => out.err = "AssertionError")

\* C1 as first stated: the failure is the AssertionError whatever the other
\* arguments are, ax included.
C1_AssertionErrorWhateverElse ==
    (HistplotDone /\ (BadHisttype \/ BadFlow)) =>
        /\ out.err = "AssertionError"
        /\ ~out.normalized
        /\ out.calls = <<>>

C1_Witness ==
    /\ HistplotDone
    /\ ~BadHisttype /\ BadFlow
    /\ args.ax = "Axes" /\ args.density /\ ~IsNone(args.w2)
    /\ out.err = "AssertionError"

Hist2dplotDone == pc = "done" /\ fn = "hist2dplot"

\* The calls on the axes that draw or lay out the 2-D plot
DrawingCalls2D ==
    {"pcolormesh", "colorbar", "append_axes", "set_xlim", "set_ylim",
     "set_xticks", "set_yticks", "set_xticklabels", "set_yticklabels",
     "set_xlabel", "set_ylabel", "plot", "scatter"}

\* C2: hist2dplot given a flow that is not show, sum, hint or None fails, and
\* no drawing call (pcolormesh, colorbar, set_xlim/set_ylim, ticks) has been
\* made on the axes.
C2_InvalidFlowRejected ==
    (Hist2dplotDone /\ args.flow \notin {None, Some("show"), Some("sum"), Some("hint")})
        => /\ out.err # "none"
           /\ \A k \in 1..Len(out.calls) : out.calls[k].call \notin DrawingCalls2D

DensityConflict == args.density /\ args.binwnorm # None
ErrorsConflict == args.w2 # None /\ args.yerr.kind # "None"

Exceeds(otol) == IF otol = None THEN 0 ELSE otol[1]

\* C4: a call of yscale_legend or yscale_anchored_text always ends; when no
\* overlap measurement was at or below otol it ends with RuntimeError if
\* soft_fail is False and by returning the axes if soft_fail is True; when a
\* measurement was at or below otol it returns the axes without error.
C4_YscaleEnds ==
    /\ (pc \in {"while", "body"}) ~> (pc = "done")
    /\ [](YscaleDone =>
            IF minOverlap > Exceeds(args.otol)
            THEN IF args.soft_fail
                 THEN out.err = "none" /\ out.ret = "ax"
                 ELSE out.err = "RuntimeError"
            ELSE out.err = "none" /\ out.ret = "ax")

C4_Witness ==
    /\ YscaleDone
    /\ minOverlap > Exceeds(args.otol)
    /\ args.soft_fail
    /\ out.ret = "ax" /\ out.err = "none"
    /\ ylim.times > 0

\* C5: in one call of yscale_legend or yscale_anchored_text the upper y-limit
\* is rescaled at most 10 times.
C5_AtMostTenRescales ==
    fn \in YscaleFns => ylim.times <= 10

\* The source exposes both flow bins: its values(flow=True) holds the underflow
\* first and the overflow last.
ExposesFlow(h) ==
    h.proto = "flowarg" \/ (h.proto = "traits" /\ h.underflow_trait /\ h.overflow_trait)

\* The call goes through the stages as given: no w2, external errors, sorting,
\* normalisation or stacking changes what is drawn.
PlainCall ==
    /\ args.w2 = None /\ args.yerr.kind \in {"None", "True", "False"}
    /\ args.sort.kind = "None" /\ ~args.density /\ args.binwnorm = None
    /\ ~args.stack /\ args.kwargs = <<>> /\ args.label.kind = "None"

\* s with x added to its first and then y to its last element
AddedToEnds(s, x, y) ==
    [j \in 1..Len(s) |->
        s[j] + (IF j = 1 THEN x ELSE 0) + (IF j = Len(s) THEN y ELSE 0)]

\* C6: with flow="sum", for a source of N >= 1 bins exposing an underflow u > 0
\* and an overflow o > 0, the plotted values are the source's with u added to
\* the first bin and o to the last and the bins between unchanged, likewise the
\* variances when present; the edges are unchanged and the source's own values
\* are not modified.
C6_FlowSumFoldsIntoEndBins ==
    (HistplotDone /\ args.flow = Some("sum") /\ out.err = "none" /\ PlainCall) =>
        \A i \in 1..Len(args.H) :
            LET h == args.H[i]
                u == h.flowvals[1]
                o == h.flowvals[Len(h.flowvals)]
                p == out.plottables[i]
            IN  (ExposesFlow(h) /\ u > 0 /\ o > 0) =>
                  /\ p.values = RSeq(AddedToEnds(h.vals, u, o))
                  /\ (h.hasVar =>
                        p.variances = Some(RSeq(AddedToEnds(h.vars, h.flowvars[1],
                                                   h.flowvars[Len(h.flowvars)]))))
                  /\ (~h.hasVar => p.variances = None)
                  /\ p.edges = [k \in 1..Len(args.bins) |->
                                  20 * (Len(args.bins) - 1) * args.bins[k]]
                  /\ out.sources[i] = h.vals

C6_Witness ==
    /\ HistplotDone /\ args.flow = Some("sum") /\ out.err = "none" /\ PlainCall
    /\ Len(args.H) = 1
    /\ Len(args.H[1].vals) = 2
    /\ args.H[1].proto = "flowarg" /\ args.H[1].hasVar
    /\ args.H[1].flowvals[1] = 2 /\ args.H[1].flowvals[4] = 3
    /\ out.plottables[1].values = <<R(args.H[1].vals[1] + 2), R(args.H[1].vals[2] + 3)>>

StrictlyIncreasing(e) == \A k \in 1..(Len(e) - 1) : e[k] < e[k + 1]

\* C7: every Plottable histplot builds has one more edge than values, under
\* every flow policy and flow content, and its edges are strictly increasing;
\* under flow="show" the values are the source's with one bin more for a
\* positive underflow and one more for a positive overflow.
C7_EdgesOneMoreThanValues ==
    (HistplotDone /\ out.normalized) =>
        /\ out.plottables # <<>>
        /\ \A i \in 1..Len(out.plottables) :
            LET p == out.plottables[i] IN
              /\ Len(p.edges) = Len(p.values) + 1
              /\ StrictlyIncreasing(p.edges)
        /\ (args.flow = Some("show") /\ args.sort.kind = "None" =>
              \A i \in 1..Len(args.H) :
                LET h == args.H[i]
                    ub == IF ExposesFlow(h) /\ h.flowvals[1] > 0 THEN 1 ELSE 0
                    ob == IF ExposesFlow(h) /\ h.flowvals[Len(h.flowvals)] > 0
                          THEN 1 ELSE 0
                IN  ExposesFlow(h) =>
                      Len(out.plottables[i].values) = Len(h.vals) + ub + ob)

C7_Witness ==
    /\ HistplotDone /\ out.err = "none"
    /\ args.flow = Some("show")
    /\ Len(args.H) = 2
    /\ Len(out.plottables[1].values) = Len(args.H[1].vals) + 2
    /\ Len(out.plottables[2].values) = Len(args.H[2].vals) + 1
    /\ Len(out.plottables[1].edges) = Len(args.bins) + 2

\* The yerr stage is reached: nothing before it has raised.
ReachedYerr ==
    /\ HistplotDone /\ out.normalized
    /\ out.site \notin {"w2.reshape", "w2_and_yerr", "kwargs"}

Bins == Len(args.bins) - 1
Series == Len(args.H)
Const(n, e) == [j \in 1..n |-> <<e, 1>>]

\* The slice of a row-major array of the given row length: row r (from 1)
RowOf(data, len, r) == [j \in 1..len |-> <<data[(r - 1) * len + j], 1>>]

FitsSeries(sh, n, N) ==
    \/ sh = <<N>>
    \/ sh = <<n, N>>
    \/ (n = 1 /\ sh \in {<<1, N>>, <<2, N>>})
    \/ sh = <<n, 2, N>>

\* C9: an array given as yerr whose shape does not fit the n series and N bins
\* is rejected with an error, never accepted and applied to some of the series
\* only.  It is stated here of the arrays whose rows are N bins wide, those of
\* three dimensions whose first dimension is not n among them.
C9_MisshapenYerrRejected ==
    (ReachedYerr /\ args.yerr.kind = "array"
       /\ Last(args.yerr.arr.shape) = Bins
       /\ ~FitsSeries(args.yerr.arr.shape, Series, Bins))
        => out.err # "none"

\* The sum over the first k series of bin j of their values as handed to the
\* stacking stage (in drawing order)
RECURSIVE CumulativeAt(_, _, _)
CumulativeAt(ps, k, j) ==
    IF k = 0 THEN <<0, 1>>
    ELSE RAdd(CumulativeAt(ps, k - 1, j), ps[k].values[j])

\* The values are drawn as the sources give them: no flow content is merged or
\* appended, nothing sorted or normalised.
UnscaledCall ==
    /\ args.w2 = None /\ args.sort.kind = "None" /\ ~args.density
    /\ args.binwnorm = None /\ args.flow \notin {Some("sum"), Some("show")}

\* C10: with stack=True and more than one series of positive values the k-th
\* drawn level is the sum of the first k series in drawing order, so the top
\* level is the elementwise sum of all series and consecutive levels differ by
\* the values of the series between them; with one series stack=True changes
\* nothing.
C10_StackIsCumulativeSum ==
    (HistplotDone /\ out.err = "none" /\ args.stack) =>
        LET n == Len(out.plottables)
            drawn(k) == out.plottables[k].values
            given(k) == out.prestack[k].values
        IN  /\ Len(out.prestack) = n
            /\ (n = 1 => drawn(1) = given(1))
            /\ (n > 1 =>
                  \A k \in 1..n : \A j \in 1..Len(drawn(k)) :
                    /\ drawn(k)[j] = CumulativeAt(out.prestack, k, j)
                    /\ (k > 1 => RAdd(drawn(k - 1)[j], given(k)[j]) = drawn(k)[j]))
            /\ (UnscaledCall =>
                  /\ \A k \in 1..n : given(k) = RSeq(args.H[k].vals)
                  /\ \A j \in 1..Len(drawn(n)) :
                        drawn(n)[j] =
                            <<SumSeq([i \in 1..n |-> args.H[i].vals[j]]), 1>>)

C10_Witness ==
    /\ HistplotDone /\ out.err = "none" /\ args.stack /\ UnscaledCall
    /\ Len(args.H) = 2
    /\ args.H[1].vals = <<1, 2>> /\ args.H[2].vals = <<2, 2>>
    /\ out.plottables[1].values = <<R(1), R(2)>>
    /\ out.plottables[2].values = <<R(3), R(4)>>

\* The normalisation stage is reached: nothing before it has raised.
ReachedNormalise ==
    /\ HistplotDone /\ out.normalized
    /\ out.site \notin {"w2.reshape", "w2_and_yerr", "kwargs", "yerr",
                        "fixed_errors", "sort"}

\* The widths of the bins of p, in the caller's unit
OwnWidths(p) ==
    [j \in 1..(Len(p.edges) - 1) |->
        Rat(p.edges[j + 1] - p.edges[j], 20 * (Len(out.final_bins) - 1))]

\* Sum over the bins of value times bin width
Integral(values, p) == RSum([j \in 1..Len(values) |-> RMul(values[j], OwnWidths(p)[j])])

\* C11: with density=True and stack=True the sum over all series and bins of
\* value times bin width is 1 after the scaling; with density=True and
\* stack=False every series integrates to 1; under every flow policy,
\* flow="show" with appended flow bins included.
C11_DensityIntegratesToOne ==
    (ReachedNormalise /\ args.density /\ args.binwnorm = None) =>
        /\ out.err = "none"
        /\ IF args.stack
           THEN RSum([k \in 1..Len(out.prestack) |->
                        Integral(out.prestack[k].values, out.prestack[k])]) = R(1)
           ELSE \A k \in 1..Len(out.prestack) :
                    /\ out.prestack[k].density
                    /\ Integral(DensityValues(out.prestack[k],
                                              Len(out.final_bins) - 1),
                                out.prestack[k]) = R(1)

\* The kinds of keyword value the claim speaks of, for n series
Unsplit(val) ==
    \/ val.type \notin {"tuple", "list"}
    \/ (val.type = "tuple"
          /\ \A k \in 1..Len(val.items) : val.items[k].type \in {"int", "float"})
Listed(val, n) == Unsplit(val) \/ Len(val.items) = n

\* What series i is to be given of the value
GivenTo(val, i) == IF Unsplit(val) THEN val ELSE val.items[i]

\* The input series drawn at position k
DrawnAt(k, i) == out.prestack[k].values = RSeq(args.H[i].vals)

\* C12: over n series a keyword value that is not iterable, or a string, is
\* given unchanged to every series, a tuple of ints or floats is given whole to
\* every series, and any other iterable of length n gives series i its i-th
\* element; sorting moves the keywords of a series with the series.
C12_KwargsFanOut ==
    (HistplotDone /\ out.normalized /\ out.site # "sort" /\ args.kwargs # <<>>
       /\ \A c \in 1..Len(args.kwargs) : Listed(args.kwargs[c].val, Len(args.H)))
      => LET n == Len(args.H)
         IN  /\ out.err = "none"
             /\ Len(out.chunked) = Len(out.prestack)
             /\ (args.sort = SNone
                   \/ (args.sort.kind = "str" /\ args.sort.parts[1] \in {"y", "yield"}))
                   => Len(out.prestack) = n
             /\ \A k \in 1..Len(out.prestack) :
                  /\ \E i \in 1..n : DrawnAt(k, i)
                  /\ \A i \in 1..n : DrawnAt(k, i) =>
                        out.chunked[k] =
                            {<<args.kwargs[c].key, GivenTo(args.kwargs[c].val, i)>> :
                                c \in 1..Len(args.kwargs)}

C12_Witness ==
    /\ HistplotDone /\ out.err = "none" /\ Len(args.H) = 2
    /\ args.sort.kind = "str"
    /\ Len(args.kwargs) = 2
    /\ args.kwargs[1].val = KSeq("list", <<KScalar("int", 1), KScalar("int", 2)>>)
    /\ DrawnAt(1, 2)
    /\ out.chunked[1] = {<<"color", KScalar("int", 2)>>, <<"alpha", args.kwargs[2].val>>}
    /\ out.chunked[2] = {<<"color", KScalar("int", 1)>>, <<"alpha", args.kwargs[2].val>>}

\* The edges as the caller gave them, in the model's unit of 1/20
GivenEdges(bins) == [k \in 1..Len(bins) |-> 20 * bins[k]]

\* The call makes the named call on the axes
Calls2D(name) == \E k \in 1..Len(out.calls) : out.calls[k].call = name

\* The grid given to pcolormesh holds g[i][j] for x bin i and y bin j
Renders(g) ==
    /\ out.calls # <<>> /\ out.calls[1].call = "pcolormesh"
    /\ LET C == out.calls[1].arg[3]
       IN  /\ Len(C) = Len(g[1])
           /\ \A j \in 1..Len(C) :
                /\ Len(C[j]) = Len(g)
                /\ \A i \in 1..Len(g) : C[j][i] = g[i][j]

\* The edges given to pcolormesh
MeshEdges(xe, ye) ==
    /\ out.calls # <<>> /\ out.calls[1].call = "pcolormesh"
    /\ out.calls[1].arg[1] = xe /\ out.calls[1].arg[2] = ye

\* Nothing but flow is asked of the call that could make it fail or mask bins
PlainCall2D ==
    /\ args.ax # "other" /\ args.labels.kind = "None"
    /\ args.cmin = None /\ args.cmax = None

\* C13: hist2dplot asked for flow bins (flow not None) of a source whose
\* values() takes no flow argument does not fail: it warns, sets flow to None,
\* renders the unpadded values with the original edges and draws neither hint
\* markers nor dashed boundary lines.
C13_NoFlowSupportDegrades ==
    (Hist2dplotDone /\ ~args.H.takesFlow /\ args.flow # None /\ PlainCall2D) =>
        /\ out.err = "none"
        /\ out.warned
        /\ out.flow = None
        /\ Renders(args.H.vals)
        /\ MeshEdges(GivenEdges(args.xbins), GivenEdges(args.ybins))
        /\ ~Calls2D("scatter") /\ ~Calls2D("plot")

C13_Witness ==
    /\ Hist2dplotDone /\ ~args.H.takesFlow /\ args.flow = Some("show")
    /\ Shape2(args.H.vals) = <<2, 2>>
    /\ out.warned /\ out.err = "none"
    /\ Renders(<<<<1, 2>>, <<3, 4>>>>)

\* The outer flow row or column of the padded array on a side, corners included
FlowSide(side) ==
    LET f == args.H.flowvals
    IN  CASE side = "xlo" -> f[1]
          [] side = "xhi" -> f[Len(f)]
          [] side = "ylo" -> [i \in 1..Len(f) |-> f[i][1]]
          [] OTHER -> [i \in 1..Len(f) |-> f[i][Len(f[1])]]

HasFlow(side) == \E k \in 1..Len(FlowSide(side)) : FlowSide(side)[k] # 0

\* A marker (scatter) or a dashed line (plot) is drawn for the side
Marked(call, side) ==
    \E k \in 1..Len(out.calls) : out.calls[k].call = call /\ out.calls[k].arg = side

\* The padded array without the sides that hold no flow
KeptGrid ==
    LET f == args.H.flowvals
        rows == (IF HasFlow("xlo") THEN <<1>> ELSE <<>>)
                \o [i \in 1..(Len(f) - 2) |-> i + 1]
                \o (IF HasFlow("xhi") THEN <<Len(f)>> ELSE <<>>)
        cols == (IF HasFlow("ylo") THEN <<1>> ELSE <<>>)
                \o [j \in 1..(Len(f[1]) - 2) |-> j + 1]
                \o (IF HasFlow("yhi") THEN <<Len(f[1])>> ELSE <<>>)
    IN  [a \in 1..Len(rows) |-> [b \in 1..Len(cols) |-> f[rows[a]][cols[b]]]]

\* The edges with a bin of 5% of the range added on the sides named
ShownEdges(bins, lo, hi) ==
    LET e == GivenEdges(bins)
        w == Last(bins) - bins[1]
    IN  (IF lo THEN <<e[1] - w>> ELSE <<>>) \o e \o (IF hi THEN <<Last(e) + w>> ELSE <<>>)

\* hist2dplot on a source with flow bins, asked for "hint" or "show" only
FlowCall2D ==
    /\ Hist2dplotDone /\ args.H.takesFlow /\ PlainCall2D
    /\ args.flow \in {Some("hint"), Some("show")}

\* C14 as first stated: where the first flow row or column holds only zeros,
\* "hint" flags a hint at that edge and "show" widens the rendered grid by one
\* row or column there.
C14_ZeroSideFlaggedAndShown ==
    FlowCall2D =>
        /\ (~HasFlow("xlo") =>
              IF args.flow = Some("hint") THEN Marked("scatter", "xlo")
              ELSE Len(out.calls[1].arg[1]) > Len(args.xbins))
        /\ (~HasFlow("ylo") =>
              IF args.flow = Some("hint") THEN Marked("scatter", "ylo")
              ELSE Len(out.calls[1].arg[2]) > Len(args.ybins))

\* C14: where the first flow row (column) holds only zeros, "hint" and "show"
\* drop it: no hint is flagged at that edge and "show" renders no bin there;
\* where it holds flow, "hint" flags a marker at that edge and renders the
\* unpadded grid, and "show" renders the grid widened by exactly that row
\* (column) of flow content, with an edge 5% of the range below the first.
C14_FlowSideTrimmedOrShown ==
    FlowCall2D =>
        /\ out.err = "none"
        /\ IF args.flow = Some("hint")
           THEN /\ Marked("scatter", "xlo") <=> HasFlow("xlo")
                /\ Marked("scatter", "ylo") <=> HasFlow("ylo")
                /\ Renders(args.H.vals)
                /\ MeshEdges(GivenEdges(args.xbins), GivenEdges(args.ybins))
           ELSE /\ Marked("plot", "xlo") <=> HasFlow("xlo")
                /\ Marked("plot", "ylo") <=> HasFlow("ylo")
                /\ Renders(KeptGrid)
                /\ Len(KeptGrid) = Len(args.H.vals)
                      + (IF HasFlow("xlo") THEN 1 ELSE 0)
                      + (IF HasFlow("xhi") THEN 1 ELSE 0)
                /\ out.calls[1].arg[1][1] =
                      20 * args.xbins[1]
                        - (IF HasFlow("xlo") THEN Last(args.xbins) - args.xbins[1]
                           ELSE 0)
                /\ out.calls[1].arg[2][1] =
                      20 * args.ybins[1]
                        - (IF HasFlow("ylo") THEN Last(args.ybins) - args.ybins[1]
                           ELSE 0)

C14_Witness ==
    /\ FlowCall2D /\ args.flow = Some("show") /\ out.err = "none"
    /\ Shape2(args.H.vals) = <<2, 2>>
    /\ ~HasFlow("xlo") /\ HasFlow("ylo") /\ ~HasFlow("xhi") /\ ~HasFlow("yhi")
    /\ Renders(<<<<10, 1, 2>>, <<10, 3, 4>>>>)
    /\ Marked("plot", "ylo") /\ ~Marked("plot", "xlo")

Sides == {"xlo", "xhi", "ylo", "yhi"}

Folded ==
    LET f == args.H.flowvals
        v == args.H.vals
        nx == Len(v)
        ny == Len(v[1])
        on(c, x) == IF c THEN x ELSE 0
    IN  [i \in 1..nx |-> [j \in 1..ny |->
            v[i][j]
            + on(i = 1, f[1][j + 1]) + on(i = nx, f[nx + 2][j + 1])
            + on(j = 1, f[i + 1][1]) + on(j = ny, f[i + 1][ny + 2])
            + on(i = 1 /\ j = 1, f[1][1]) + on(i = 1 /\ j = ny, f[1][ny + 2])
            + on(i = nx /\ j = 1, f[nx + 2][1])
            + on(i = nx /\ j = ny, f[nx + 2][ny + 2])]]

\* The sum of all entries of a 2-D array
Total(g) == SumSeq([i \in 1..Len(g) |-> SumSeq(g[i])])

\* C16: under flow="sum" every edge bin gains the flow bin next to it, every
\* corner bin the diagonal corner flow bin as well, the bins inside are
\* unchanged, and the rendered grid sums to the values with all flow bins, for
\* every grid shape, an axis of a single bin included.
C16_FlowSumFoldsAll ==
    (Hist2dplotDone /\ args.H.takesFlow /\ PlainCall2D /\ args.flow = Some("sum")) =>
        /\ out.err = "none"
        /\ Renders(Folded)
        /\ Total(out.calls[1].arg[3]) = Total(args.H.flowvals)
        /\ MeshEdges(GivenEdges(args.xbins), GivenEdges(args.ybins))

\* histplot has drawn the flow marker of the side ("underflow", "overflow")
FlowMarker(side) ==
    \E k \in 1..Len(out.calls) :
        out.calls[k].call = "scatter" /\ out.calls[k].role = side

\* C17: drawing several series with flow="hint", histplot draws the underflow
\* marker whenever any of the series has underflow content and the overflow
\* marker whenever any of them has overflow content, the last series or not,
\* and no marker on a side where no series has flow content.
C17_HintMarkersForAnySeries ==
    (HistplotDone /\ out.err = "none" /\ args.flow = Some("hint")
       /\ Len(args.H) > 1) =>
        /\ FlowMarker("underflow") <=> \E i \in 1..Len(args.H) : Underflow(args.H[i]) > 0
        /\ FlowMarker("overflow") <=> \E i \in 1..Len(args.H) : Overflow(args.H[i]) > 0

YlowDone == pc = "done" /\ fn = "ylow"

\* C18: ylow(ax, ylow=v) on a linear-scale axes sets the lower y-limit to the
\* value v and leaves the upper y-limit unchanged; on a log-scale axes ylow
\* changes no limit at all.
C18_YlowSetsGivenValue ==
    YlowDone =>
        /\ (args.yscale = "linear" /\ ~IsNone(args.ylow)) =>
               (ylim.lo = Get(args.ylow) /\ ylim.hi = args.ylim0.hi /\ ylim.times = 0)
        /\ args.yscale = "log" => ylim = args.ylim0

\* The label the caller gave for input series i
LabelGiven(i) ==
    CASE args.label.kind = "None" -> None
      [] args.label.kind = "list" -> Some(args.label.items[i])
      [] OTHER -> Some(args.label.val)

\* Position k of the drawing holds input series i with its label and keywords
OwnAt(k, i) ==
    /\ DrawnAt(k, i)
    /\ out.labels[k] = LabelGiven(i)
    /\ out.chunked[k] = {<<args.kwargs[c].key, GivenTo(args.kwargs[c].val, i)>> :
                            c \in 1..Len(args.kwargs)}

YieldSorts == {SStr(<<"yield">>), SStr(<<"y">>)}

\* C19: with sort="yield" (or "y") the series are drawn in ascending order of
\* their summed values, with sort="yield_r" in the exact reverse of that order;
\* series, per-series kwargs and labels are reordered alike, every series
\* keeping its own label and kwargs; with sort=None the input order is kept.
C19_SortByYield ==
    (HistplotDone /\ args.kwargs # <<>>
       /\ args.sort \in YieldSorts \cup {SNone, SStr(<<"yield", "r">>)}
       /\ \A c \in 1..Len(args.kwargs) : Listed(args.kwargs[c].val, Len(args.H)))
      => LET n == Len(args.H)
             total(k) == RSum(out.prestack[k].values)
             asc == histplot([args EXCEPT !.sort = SStr(<<"yield">>)])
         IN  /\ out.err = "none"
             /\ Len(out.prestack) = n /\ Len(out.labels) = n /\ Len(out.chunked) = n
             /\ \A k \in 1..n : \E i \in 1..n : OwnAt(k, i)
             /\ \A i \in 1..n : \E k \in 1..n : OwnAt(k, i)
             /\ args.sort = SNone => \A k \in 1..n : OwnAt(k, k)
             /\ args.sort \in YieldSorts =>
                    \A k \in 1..(n - 1) : ~RLess(total(k + 1), total(k))
             /\ args.sort = SStr(<<"yield", "r">>) =>
                    \A k \in 1..n :
                        /\ out.prestack[k] = asc.prestack[n + 1 - k]
                        /\ out.labels[k] = asc.labels[n + 1 - k]
                        /\ out.chunked[k] = asc.chunked[n + 1 - k]

\* Two differently labelled series were given in descending order of yield and
\* drawn by ascending yield
C19_Witness ==
    /\ HistplotDone /\ out.err = "none"
    /\ args.sort = SStr(<<"yield">>) /\ args.label.kind = "list"
    /\ Len(args.H) = 2 /\ Len(out.prestack) = 2
    /\ RLess(RSum(RSeq(args.H[2].vals)), RSum(RSeq(args.H[1].vals)))
    /\ OwnAt(1, 2) /\ OwnAt(2, 1)

\* sort="label" (or "l", reversed or not), or an index list as long as the
\* series are many
LabelOrIndexSort ==
    \/ args.sort.kind = "str" /\ args.sort.parts[1] \in {"l", "label"}
    \/ args.sort.kind = "list" /\ Len(args.sort.idx) = Len(args.H)

\* C20: whenever histplot accepts its sort option (no error raised) the drawn
\* series are a permutation of the input series, as many as were given and each
\* drawn exactly once: for sort="label" with label None, a string or a list,
\* and for an index list of the right length, repeated indices included.
C20_SortedIsPermutation ==
    (HistplotDone /\ out.err = "none" /\ LabelOrIndexSort) =>
        LET n == Len(args.H)
        IN  /\ Len(out.prestack) = n
            /\ \A i \in 1..n :
                 Cardinality({k \in 1..Len(out.prestack) : DrawnAt(k, i)}) = 1

\* The variances and the fixed errors of the plottable are as long as its values
ErrorsFitValues(p) ==
    /\ ~IsNone(p.variances) => Len(Get(p.variances)) = Len(p.values)
    /\ ~IsNone(p.yerr) =>
          /\ Len(Get(p.yerr)[1]) = Len(p.values)
          /\ Len(Get(p.yerr)[2]) = Len(p.values)

\* C21: every plottable histplot hands to a drawing style has variances (when
\* present) and fixed lower and upper errors (when attached) as long as its
\* values, also under flow="show" with positive underflow or overflow together
\* with w2 or with a scalar or array yerr, where the values carry the flow bins.
\* The property is stated of the plottables whose outline is drawn (styles
\* "step" and "fill": ax.stairs(**plottables[i].to_stairs()) comes first).
C21_ErrorsAsLongAsValues ==
    HistplotDone =>
        \A k \in 1..Len(out.calls) :
            (out.calls[k].call = "stairs" /\ out.calls[k].role \in {"step", "fill"}) =>
                ErrorsFitValues(out.prestack[out.calls[k].series])

\* The keyword dict of the series drawn at position k has the keyword
HasKeyword(k, key) == \E pair \in out.chunked[k] : pair[1] = key

\* C22: for any kwargs over n series either the call fails before any drawing
\* call, or every series receives a value for every keyword the caller gave; a
\* sequence whose length differs from n never leaves a series silently without
\* the keyword.  Stated of the series that are drawn.
C22_EverySeriesGetsEveryKeyword ==
    (HistplotDone /\ args.kwargs # <<>>) =>
        \/ out.err # "none" /\ NoDrawing(out.calls)
        \/ \A k \in 1..Len(out.chunked) : \A c \in 1..Len(args.kwargs) :
               HasKeyword(k, args.kwargs[c].key)

\* One step of a running yscale_legend or yscale_anchored_text call
YscaleRunning == fn \in YscaleFns /\ pc \in {"while", "body"}

\* The upper limit hi multiplied k times by 1.05, computed exactly
RECURSIVE TimesFactor(_, _)
TimesFactor(hi, k) ==
    IF k = 0 THEN R(hi) ELSE RMul(TimesFactor(hi, k - 1), Rat(21, 20))

\* C23: in yscale_legend and yscale_anchored_text no iteration changes the
\* lower y-limit; if the first overlap measurement is <= otol the y-limits are
\* not changed at all; after k rescaling iterations the upper limit is the
\* initial upper limit multiplied k times by the factor, which is fixed at entry
\* (1.05 on a linear axis, 10^1.05 on a log axis; both exceed 1, so that a
\* positive upper limit grows with every multiplication: computed on a linear
\* axis for the first three).
C23_YlimFrameAndGrowth ==
    /\ [](fn \in YscaleFns =>
            /\ scale_factor = (IF args.yscale = "log" THEN "10**1.05" ELSE "1.05")
            /\ ylim.lo = args.ylim0.lo
            /\ ylim.hi = args.ylim0.hi
            /\ YscaleRunning => ylim.times = max_scales)
    /\ [][/\ (pc = "idle" /\ fn' \in YscaleFns) => (ylim' = args'.ylim0 /\ ylim'.times = 0)
          /\ YscaleRunning =>
               /\ scale_factor' = scale_factor
               /\ ylim'.lo = ylim.lo /\ ylim'.hi = ylim.hi
               /\ pc = "while" => ylim' = ylim
               /\ pc = "body" => ylim'.times = ylim.times + 1
               /\ (pc = "body" /\ scale_factor = "1.05" /\ ylim.hi > 0
                     /\ ylim.times < 3) =>
                      RLess(TimesFactor(ylim.hi, ylim.times),
                            TimesFactor(ylim'.hi, ylim'.times))
               /\ (pc = "while" /\ max_scales = 0 /\ pc' = "done") =>
                      ylim' = args.ylim0]_vars

\* A call on a log axis with a positive upper limit has rescaled it twice
C23_Witness ==
    /\ YscaleDone /\ args.yscale = "log" /\ args.ylim0.hi = 1
    /\ ylim = [lo |-> 0, hi |-> 1, times |-> 2]
    /\ scale_factor = "10**1.05"

\* The drawing calls made for series i, in order
CallsFor(i) == SelectSeq(out.calls, LAMBDA c : c.series = i)

\* Errors are to be drawn for input series i
ErrorsWanted(i) ==
    /\ args.yerr.kind # "False"
    /\ (args.yerr.kind # "None" \/ ~IsNone(args.w2) \/ args.H[i].hasVar)

\* C24: with histtype="step" the label of a series goes to exactly one drawn
\* artist: to the stairs when no errors are drawn, to the empty legend-proxy
\* errorbar (not to the stairs, not to the data errorbar) when errors are drawn;
\* errors are drawn iff yerr is not False and yerr is not None, or w2 is not
\* None, or the series has variances.  One StairsArtists is returned per
\* series, its errorbar and legend_artist being None exactly when no errors
\* are drawn.
C24_StepLabelOnOneArtist ==
    (HistplotDone /\ out.err = "none" /\ args.histtype = "step"
       /\ args.sort = SNone /\ ~args.stack) =>
        LET n == Len(args.H)
        IN  /\ Len(out.artists) = n
            /\ \A i \in 1..n :
                 LET cs == CallsFor(i)
                     lab == LabelGiven(i)
                 IN  /\ out.artists[i].type = "StairsArtists"
                     /\ out.artists[i].stairs
                     /\ out.artists[i].errorbar = ErrorsWanted(i)
                     /\ out.artists[i].legend_artist = ErrorsWanted(i)
                     /\ IF ErrorsWanted(i)
                        THEN cs = <<DrawCall("stairs", i, None, "step"),
                                    DrawCall("errorbar", i, None, "data"),
                                    DrawCall("errorbar", i, lab, "legend")>>
                        ELSE cs = <<DrawCall("stairs", i, lab, "step")>>
                     /\ Cardinality({k \in 1..Len(cs) : ~IsNone(cs[k].label)})
                           = (IF IsNone(lab) THEN 0 ELSE 1)

\* Of two labelled series the first has variances and the second has none: the
\* first label is on the legend proxy, the second on the stairs
C24_Witness ==
    /\ HistplotDone /\ out.err = "none" /\ args.histtype = "step"
    /\ Len(args.H) = 2 /\ args.label.kind = "list"
    /\ args.yerr.kind = "None" /\ IsNone(args.w2)
    /\ args.H[1].hasVar /\ ~args.H[2].hasVar
    /\ CallsFor(1)[3] = DrawCall("errorbar", 1, Some(1), "legend")
    /\ CallsFor(2) = <<DrawCall("stairs", 2, Some(2), "step")>>

====
